---- MODULE Spec2Model ----
(***************************************************************************)
(* The live workflow-progress tracker of JarvisMD                          *)
(* (src/src/components/WorkflowProgress.jsx): the store kept in            *)
(* workflowState, the onmessage merge of inbound WebSocket frames, the     *)
(* effect that opens and closes the connection as the props sessionId and  *)
(* isVisible change, and the connection handlers.                          *)
(*                                                                         *)
(* JavaScript values are tagged records, so that null, undefined, strings, *)
(* numbers, arrays and objects stay distinct.  An object is a function     *)
(* from the keys it has to their values: a key that is absent is not in    *)
(* its DOMAIN, which is what the object spread {...a, ...b} depends on.    *)
(***************************************************************************)
EXTENDS Integers, Sequences, FiniteSets, TLC

VARIABLES
    workflowState,    \* useState store (line 5)
    isConnected,      \* useState(false) (line 23)
    connectionError,  \* useState(null) (line 24)
    sessionId,        \* prop: the run id, null when there is none
    isVisible,        \* prop: the view is shown
    phase,            \* "rendered" before the first effect ran, then
                      \* "mounted", then "unmounted"
    hasCleanup,       \* the last run of the effect returned its cleanup
    current,          \* websocket.current: 0 for null, else a socket
    readyState,       \* per socket created, in order of creation: its state
    outbox,           \* per socket: the frames sent on it
    errorLog,         \* console.error calls of the onmessage catch (line 110)
    crashed,          \* an exception escaped a state updater during render
    clock,            \* the local clock, in milliseconds
    nframes,          \* message events dispatched to onmessage so far
    lastBranch        \* the branch of onmessage the last event took

vars == <<workflowState, isConnected, connectionError, sessionId, isVisible,
          phase, hasCleanup, current, readyState, outbox, errorLog, crashed,
          clock, nframes, lastBranch>>

\* ------------------------------------------------------------------ bounds
MaxFrames == 3
MaxClock == 1
MaxSockets == 2

\* ------------------------------------------------------- JavaScript values
Undefined == [t |-> "undefined"]
Null == [t |-> "null"]
Str(s) == [t |-> "string", v |-> s]
Num(n) == [t |-> "number", v |-> n]
Arr(s) == [t |-> "array", v |-> s]
Obj(r) == [t |-> "object", v |-> r]
NoKeys == [k \in {} |-> Undefined]

\* ToBoolean of the values that occur: undefined, null, "" and 0 are falsy.
Truthy(x) ==
    /\ x.t \notin {"undefined", "null"}
    /\ ~(x.t = "string" /\ x.v = "")
    /\ ~(x.t = "number" /\ x.v = 0)

Nullish(x) == x.t \in {"undefined", "null"}

\* o.k for a non-nullish o: an own key's value, undefined otherwise.
Prop(o, k) == IF o.t = "object" /\ k \in DOMAIN o.v THEN o.v[k] ELSE Undefined

\* o?.k
OptProp(o, k) == IF Nullish(o) THEN Undefined ELSE Prop(o, k)

\* a || b
OrElse(a, b) == IF Truthy(a) THEN a ELSE b

\* The own enumerable keys an object spread copies from x: none for
\* undefined, null and numbers.
SpreadKeys(x) == IF x.t = "object" THEN DOMAIN x.v ELSE {}

\* {...a, ...b} as a key -> value function.
Spread(a, b) ==
    [k \in SpreadKeys(a) \cup SpreadKeys(b) |->
        IF k \in SpreadKeys(b) THEN b.v[k] ELSE a.v[k]]

\* {...a, k: x}
With(a, k, x) == Spread(a, Obj([j \in {k} |-> x]))

\* ----------------------------------------------------------- the catalog
Step(id, name, agent) ==
    Obj([id |-> Str(id), name |-> Str(name), status |-> Str("pending"),
         agent |-> Str(agent)])

InitialSteps ==
    << Step("triage", "Case Triage", "CaseTriageAgent"),
       Step("doctor_matching", "Doctor Matching", "DoctorMatchingAgent"),
       Step("appointment_coordination", "Appointment Coordination",
            "AppointmentCoordinatorAgent"),
       Step("doctor_simulation", "Doctor Response Simulation",
            "DoctorResponseSimulatorAgent"),
       Step("calendar_integration", "Calendar Integration",
            "CalendarIntegrationAgent"),
       Step("health_recommendations", "Health Recommendations",
            "HealthAdvisorAgent") >>

InitialState ==
    Obj([status |-> Str("idle"),
         current_step |-> Null,
         completed_steps |-> Arr(<< >>),
         progress_percentage |-> Num(0),
         messages |-> Arr(<< >>),
         agent_activities |-> Arr(<< >>),
         current_agent |-> Null,
         workflow_steps |-> Arr(InitialSteps)])

\* ------------------------------------------------------------ local time
MsPerSecond == 1000

\* Date.now()
DateNow(now) == now

\* new Date().toLocaleTimeString(): the wall-clock time to the second.
LocaleTimeString(now) == Str("local:" \o ToString(now \div MsPerSecond))

\* --------------------------------------------- onmessage: progress_update
IsArray(x) == x.t = "array"

\* a?.includes(x), for a an array, null or undefined
Includes(a, x) == IsArray(a) /\ \E i \in DOMAIN a.v : a.v[i] = x

\* lines 67-72: the message entry appended to the log
MessageEntry(d, now) ==
    Obj(With(Prop(d, "message"), "timestamp", LocaleTimeString(now)))

\* line 75
TracksActivity(d) ==
    Truthy(Prop(d, "current_agent")) \/ Truthy(Prop(d, "agent_activity"))

\* Activity whose agent is the fragment's when there is one, and only
\* otherwise the patch's current_agent.
ActivityFragmentAgentFirst(d, now) ==
    Obj([id |-> Num(DateNow(now)),
         timestamp |-> LocaleTimeString(now),
         agent |-> OrElse(OptProp(Prop(d, "agent_activity"), "agent"),
                          Prop(d, "current_agent")),
         action |-> OrElse(OptProp(Prop(d, "agent_activity"), "action"),
                           OrElse(OptProp(Prop(d, "message"), "content"),
                                  Str("Processing..."))),
         status |-> OrElse(OptProp(Prop(d, "agent_activity"), "status"),
                           Str("running")),
         details |-> OrElse(OptProp(Prop(d, "agent_activity"), "details"),
                            Null)])

\* lines 76-83
Activity(d, now) ==
    Obj([id |-> Num(DateNow(now)),
         timestamp |-> LocaleTimeString(now),
         agent |-> OrElse(Prop(d, "current_agent"),
                          OptProp(Prop(d, "agent_activity"), "agent")),
         action |-> OrElse(OptProp(Prop(d, "agent_activity"), "action"),
                           OrElse(OptProp(Prop(d, "message"), "content"),
                                  Str("Processing..."))),
         status |-> OrElse(OptProp(Prop(d, "agent_activity"), "status"),
                           Str("running")),
         details |-> OrElse(OptProp(Prop(d, "agent_activity"), "details"),
                            Null)])

\* MapStep with its two tests in the other order: membership in
\* completed_steps decided before the comparison with current_step.
MapStepCompletedFirst(step, prev, d) ==
    IF Includes(Prop(prev, "completed_steps"), Prop(step, "id"))
    THEN Obj(With(step, "status", Str("completed")))
    ELSE IF Prop(step, "id") = Prop(d, "current_step")
         THEN Obj(With(step, "status", Str("running")))
         ELSE step

\* lines 91-98: the callback of prevState.workflow_steps.map
MapStep(step, prev, d) ==
    IF Prop(step, "id") = Prop(d, "current_step")
    THEN Obj(With(step, "status", Str("running")))
    ELSE IF Includes(Prop(prev, "completed_steps"), Prop(step, "id"))
         THEN Obj(With(step, "status", Str("completed")))
         ELSE step

\* The updater of lines 60-102 throws a TypeError: data.data is undefined or
\* null (line 67 reads data.data.message), or a log it spreads or the step
\* list it maps is not an array.
UpdaterThrows(prev, d) ==
    \/ Nullish(d)
    \/ Truthy(Prop(d, "message")) /\ ~IsArray(Prop(prev, "messages"))
    \/ TracksActivity(d) /\ ~IsArray(Prop(prev, "agent_activities"))
    \/ Truthy(Prop(d, "current_step")) /\ ~IsArray(Prop(prev, "workflow_steps"))

\* Merged with the spreads in the other order: the stored fields win.
MergedPrevWins(prev, d) == Spread(d, prev)

\* lines 61-64
Merged(prev, d) == Spread(prev, d)

\* lines 67-72
WithMessage(prev, d, now, s) ==
    IF Truthy(Prop(d, "message"))
    THEN [s EXCEPT !["messages"] =
            Arr(Append(Prop(prev, "messages").v, MessageEntry(d, now)))]
    ELSE s

\* lines 75-87
WithActivity(prev, d, now, s) ==
    IF TracksActivity(d)
    THEN [k \in DOMAIN s \cup {"current_agent"} |->
            IF k = "agent_activities"
            THEN Arr(Append(Prop(prev, "agent_activities").v, Activity(d, now)))
            ELSE IF k = "current_agent" THEN Prop(d, "current_agent")
            ELSE s[k]]
    ELSE s

\* lines 90-99
WithSteps(prev, d, s) ==
    IF Truthy(Prop(d, "current_step"))
    THEN [s EXCEPT !["workflow_steps"] =
            Arr([i \in DOMAIN Prop(prev, "workflow_steps").v |->
                    MapStep(Prop(prev, "workflow_steps").v[i], prev, d)])]
    ELSE s

\* lines 60-102: the state the progress_update updater returns
ProgressUpdate(prev, d, now) ==
    Obj(WithSteps(prev, d,
          WithActivity(prev, d, now,
            WithMessage(prev, d, now, Merged(prev, d)))))

\* lines 104-107: the state the session_update updater returns
SessionUpdate(prev, d) == Obj(Spread(prev, d))

\* ------------------------------------------------- the frames that arrive
\* A payload is the text of event.data: it is JSON of some value, or it is not
\* JSON at all.
Json(x) == [json |-> TRUE, value |-> x]
NotJson == [json |-> FALSE, value |-> Undefined]

Envelope(type, d) == Json(Obj([type |-> Str(type), data |-> d]))

Triage == Str("triage")
DoctorMatching == Str("doctor_matching")
CriticalMessage == Obj([content |-> Str("Case classified as CRITICAL")])
StampedMessage ==
    Obj([content |-> Str("Selected 3 doctors"), timestamp |-> Str("09:00:00")])
Fragment ==
    Obj([agent |-> Str("DoctorMatchingAgent"),
         action |-> Str("Selected 3 doctors"),
         status |-> Str("completed")])

\* Patches over the fields the handler reads and the store holds.
StepPatches ==
    { [current_step |-> Triage],
      [current_step |-> DoctorMatching],
      [current_step |-> Null],
      [current_step |-> Str("lab_review")],
      [completed_steps |-> Arr(<< >>)],
      [completed_steps |-> Arr(<<Triage>>)],
      [completed_steps |-> Null],
      [completed_steps |-> Arr(<<Triage>>), current_step |-> DoctorMatching],
      [completed_steps |-> Arr(<<Triage>>), current_step |-> Triage] }

AgentPatches ==
    { [current_agent |-> Str("CaseTriageAgent")],
      [current_agent |-> Null],
      [agent_activity |-> Fragment],
      [current_agent |-> Str("CaseTriageAgent"), agent_activity |-> Fragment],
      [message |-> CriticalMessage, current_agent |-> Str("CaseTriageAgent")],
      [message |-> StampedMessage] }

RunPatches ==
    { NoKeys,
      [status |-> Str("running"), progress_percentage |-> Num(50)],
      [status |-> Str("completed"), final_result |-> Str("report")] }

LogPatches ==
    { [messages |-> Arr(<< >>)],
      [agent_activities |-> Arr(<< >>)],
      [workflow_steps |-> Arr(<<InitialSteps[1]>>)] }

Patches == StepPatches \cup AgentPatches \cup RunPatches \cup LogPatches

\* The data member of an envelope: a patch object, or no usable object.
DataValues == {Obj(p) : p \in Patches} \cup {Undefined, Null}

\* The session_update frames: the same envelope, over fewer of the patches.
SessionPatches ==
    { NoKeys,
      [current_step |-> Triage],
      [completed_steps |-> Arr(<<Triage>>)],
      [current_agent |-> Str("CaseTriageAgent")],
      [status |-> Str("running"), progress_percentage |-> Num(50)],
      [message |-> StampedMessage] }
    \cup LogPatches

SessionDataValues == {Obj(p) : p \in SessionPatches} \cup {Undefined, Null}

\* Frames of a kind the handler does not know, or of no kind.
OtherFrames ==
    { Envelope("pong", Undefined),
      Envelope("pong", Obj([current_step |-> Triage])),
      Envelope("pong", Obj([messages |-> Arr(<< >>)])),
      Json(Obj([data |-> Obj([current_step |-> Triage])])),
      Json(Obj(NoKeys)) }

Payloads ==
    {Envelope("progress_update", d) : d \in DataValues}
    \cup {Envelope("session_update", d) : d \in SessionDataValues}
    \cup OtherFrames
    \cup {NotJson, Json(Null), Json(Num(7))}

\* --------------------------------------------------------------- handlers
\* HandlerCatches for a try block that ends after JSON.parse.
HandlerCatchesParseOnly(p) == ~p.json

\* lines 56-57, 109-111: JSON.parse throws on text that is not JSON, and
\* data.type throws on null; the catch logs and drops the frame.
HandlerCatches(p) == ~p.json \/ Nullish(p.value)

FrameType(p) == Prop(p.value, "type")
FrameData(p) == Prop(p.value, "data")

\* The frames of the runs that follow the connection through changes of the
\* props: one that is merged, one whose updater throws, one that is dropped.
LifecyclePayloads ==
    { Envelope("progress_update", Obj([current_step |-> Triage])),
      Envelope("progress_update", Undefined),
      NotJson }

\* The run ids the prop sessionId takes.
RunIds == {Str("run-1"), Str("run-2")}

\* ---------------------------------------------------------------- sockets
\* A socket is CONNECTING, then OPEN.  close() on a socket that has not
\* opened makes it ABORTED (the browser fails the connection: an error event
\* follows, then a close event) and close() on an open one makes it CLOSING
\* (a close event follows).  FAILED is a socket whose error event was
\* dispatched and whose close event is due.  CLOSED is final.  The browser
\* dispatches open and message events only on a socket that close() was not
\* called on.
Live == {"CONNECTING", "OPEN"}

\* CloseSocket that leaves an open socket open.
CloseSocketOnlyConnecting(rs, s) ==
    [rs EXCEPT ![s] = IF @ = "CONNECTING" THEN "ABORTED" ELSE @]

\* CloseSocket that starts the closing of any socket, closed ones included.
CloseSocketAgain(rs, s) ==
    [rs EXCEPT ![s] = IF @ = "CONNECTING" THEN "ABORTED" ELSE "CLOSING"]

\* line 136: close() on socket s; nothing happens to one that is not live
CloseSocket(rs, s) ==
    [rs EXCEPT ![s] = IF @ = "CONNECTING" THEN "ABORTED"
                      ELSE IF @ = "OPEN" THEN "CLOSING"
                      ELSE @]

\* CleanupEffect that closes nothing.
CleanupEffectKeepsSocket(rs, cur) == rs

\* lines 133-138: the cleanup the effect returns
CleanupEffect(rs, cur) == IF cur # 0 THEN CloseSocket(rs, cur) ELSE rs

\* EffectConnects that does not look at isVisible.
EffectConnectsHidden(id, vis) == Truthy(id)

\* line 38: the effect goes on to connect
EffectConnects(id, vis) == Truthy(id) /\ vis

GetStatus == Obj([type |-> Str("get_status")])

Mounted == phase = "mounted"

Init ==
    /\ workflowState = InitialState
    /\ isConnected = FALSE
    /\ connectionError = Null
    /\ sessionId \in {Null, Str("run-1")}
    /\ isVisible \in BOOLEAN
    /\ phase = "rendered"
    /\ hasCleanup = FALSE
    /\ current = 0
    /\ readyState = << >>
    /\ outbox = << >>
    /\ errorLog = 0
    /\ crashed = FALSE
    /\ clock = 0
    /\ nframes = 0
    /\ lastBranch = "none"

\* The sockets as React leaves them when it runs the cleanup of the last run
\* of the effect, if that run returned one.
AfterCleanup ==
    IF hasCleanup THEN CleanupEffect(readyState, current) ELSE readyState

\* lines 41-129: connectWebSocket on the sockets rs.  The constructor returns
\* a socket, or throws (a URL it rejects, a page that may not open ws:) and
\* the catch of line 125 records it.
ConnectWebSocket(rs) ==
    \/ /\ Len(rs) < MaxSockets
       /\ readyState' = Append(rs, "CONNECTING")
       /\ outbox' = Append(outbox, << >>)
       /\ current' = Len(rs) + 1
       /\ UNCHANGED connectionError
    \/ /\ readyState' = rs
       /\ connectionError' = Str("Failed to establish connection")
       /\ UNCHANGED <<current, outbox>>

\* lines 37-139: the effect runs with the props id and vis on the sockets rs
RunEffect(id, vis, rs) ==
    IF EffectConnects(id, vis)
    THEN /\ hasCleanup' = TRUE
         /\ ConnectWebSocket(rs)
    ELSE /\ hasCleanup' = FALSE
         /\ readyState' = rs
         /\ UNCHANGED <<current, outbox, connectionError>>

\* The effect runs for the first time, after the first render.
Mount ==
    /\ phase = "rendered"
    /\ phase' = "mounted"
    /\ RunEffect(sessionId, isVisible, readyState)
    /\ UNCHANGED <<workflowState, isConnected, sessionId, isVisible, errorLog,
                   crashed, clock, nframes, lastBranch>>

\* line 139: the parent renders the component with other props; React runs
\* the cleanup of the last run of the effect, then the effect.
SetProps(id, vis) ==
    /\ Mounted
    /\ <<id, vis>> # <<sessionId, isVisible>>
    /\ sessionId' = id
    /\ isVisible' = vis
    /\ RunEffect(id, vis, AfterCleanup)
    /\ UNCHANGED <<workflowState, isConnected, phase, errorLog, crashed,
                   clock, nframes, lastBranch>>

\* The parent removes the component; React runs the cleanup.
Unmount ==
    /\ Mounted
    /\ phase' = "unmounted"
    /\ readyState' = AfterCleanup
    /\ hasCleanup' = FALSE
    /\ UNCHANGED <<workflowState, isConnected, connectionError, sessionId,
                   isVisible, current, outbox, errorLog, crashed, clock,
                   nframes, lastBranch>>

\* OnOpen that sends nothing.
OnOpenSilent(s) ==
    /\ readyState[s] = "CONNECTING"
    /\ readyState' = [readyState EXCEPT ![s] = "OPEN"]
    /\ isConnected' = TRUE
    /\ connectionError' = Null
    /\ UNCHANGED <<workflowState, sessionId, isVisible, phase, hasCleanup,
                   current, outbox, errorLog, crashed, clock, nframes,
                   lastBranch>>

\* lines 46-53: the open event of socket s.  The handler sends on the socket
\* websocket.current holds; send on a socket that is closing or closed drops
\* the frame.
OnOpen(s) ==
    /\ readyState[s] = "CONNECTING"
    /\ readyState' = [readyState EXCEPT ![s] = "OPEN"]
    /\ isConnected' = IF Mounted THEN TRUE ELSE isConnected
    /\ connectionError' = IF Mounted THEN Null ELSE connectionError
    /\ outbox' = IF readyState'[current] = "OPEN"
                 THEN [outbox EXCEPT ![current] = Append(@, GetStatus)]
                 ELSE outbox
    /\ UNCHANGED <<workflowState, sessionId, isVisible, phase, hasCleanup,
                   current, errorLog, crashed, clock, nframes, lastBranch>>

\* Branch with a plain else in place of the else-if of line 103.
BranchElseSession(p) ==
    IF HandlerCatches(p) THEN "catch"
    ELSE IF FrameType(p) = Str("progress_update") THEN "progress_update"
    ELSE "session_update"

\* lines 57-108: the branch the handler takes on a payload
Branch(p) ==
    IF HandlerCatches(p) THEN "catch"
    ELSE IF FrameType(p) = Str("progress_update") THEN "progress_update"
    ELSE IF FrameType(p) = Str("session_update") THEN "session_update"
    ELSE "ignored"

\* lines 55-112: a message event of socket s with payload p.  A state updater
\* runs when React renders; an exception it throws is outside the handler's
\* try block, no error boundary catches it, and React unmounts the component,
\* which runs the cleanup.
OnMessageAt(s, p) ==
    /\ readyState[s] = "OPEN"
    /\ nframes < MaxFrames
    /\ nframes' = nframes + 1
    /\ lastBranch' = Branch(p)
    /\ errorLog' = IF Branch(p) = "catch" THEN errorLog + 1 ELSE errorLog
    /\ CASE Mounted /\ Branch(p) = "progress_update" ->
                IF UpdaterThrows(workflowState, FrameData(p))
                THEN /\ crashed' = TRUE
                     /\ phase' = "unmounted"
                     /\ readyState' = AfterCleanup
                     /\ hasCleanup' = FALSE
                     /\ UNCHANGED workflowState
                ELSE /\ workflowState' =
                          ProgressUpdate(workflowState, FrameData(p), clock)
                     /\ UNCHANGED <<crashed, phase, readyState, hasCleanup>>
         [] Mounted /\ Branch(p) = "session_update" ->
                /\ workflowState' = SessionUpdate(workflowState, FrameData(p))
                /\ UNCHANGED <<crashed, phase, readyState, hasCleanup>>
         [] OTHER -> UNCHANGED <<workflowState, crashed, phase, readyState,
                                 hasCleanup>>
    /\ UNCHANGED <<isConnected, connectionError, sessionId, isVisible,
                   current, outbox, clock>>

OnMessage(p) == \E s \in DOMAIN readyState : OnMessageAt(s, p)

\* OnClose that marks the run failed in the store.
OnCloseFailsRun(s) ==
    /\ readyState[s] \in {"OPEN", "CLOSING", "FAILED"}
    /\ readyState' = [readyState EXCEPT ![s] = "CLOSED"]
    /\ isConnected' = FALSE
    /\ workflowState' = Obj(With(workflowState, "status", Str("failed")))
    /\ UNCHANGED <<connectionError, sessionId, isVisible, phase, hasCleanup,
                   current, outbox, errorLog, crashed, clock, nframes,
                   lastBranch>>

\* lines 114-117: the close event of socket s
OnClose(s) ==
    /\ readyState[s] \in {"OPEN", "CLOSING", "FAILED"}
    /\ readyState' = [readyState EXCEPT ![s] = "CLOSED"]
    /\ isConnected' = IF Mounted THEN FALSE ELSE isConnected
    /\ UNCHANGED <<workflowState, connectionError, sessionId, isVisible,
                   phase, hasCleanup, current, outbox, errorLog, crashed,
                   clock, nframes, lastBranch>>

\* OnError that connects again.
OnErrorReconnects(s) ==
    /\ readyState[s] \in {"CONNECTING", "OPEN", "ABORTED", "CLOSING"}
    /\ Len(readyState) < MaxSockets
    /\ readyState' = Append([readyState EXCEPT ![s] = "FAILED"], "CONNECTING")
    /\ outbox' = Append(outbox, << >>)
    /\ current' = Len(readyState) + 1
    /\ connectionError' = Str("Connection failed")
    /\ isConnected' = FALSE
    /\ UNCHANGED <<workflowState, sessionId, isVisible, phase, hasCleanup,
                   errorLog, crashed, clock, nframes, lastBranch>>

\* lines 119-123: the error event of socket s
OnError(s) ==
    /\ readyState[s] \in {"CONNECTING", "OPEN", "ABORTED", "CLOSING"}
    /\ readyState' = [readyState EXCEPT ![s] = "FAILED"]
    /\ connectionError' =
         IF Mounted THEN Str("Connection failed") ELSE connectionError
    /\ isConnected' = IF Mounted THEN FALSE ELSE isConnected
    /\ UNCHANGED <<workflowState, sessionId, isVisible, phase, hasCleanup,
                   current, outbox, errorLog, crashed, clock, nframes,
                   lastBranch>>

\* The local clock advances.
Tick ==
    /\ clock < MaxClock
    /\ clock' = clock + 1
    /\ UNCHANGED <<workflowState, isConnected, connectionError, sessionId,
                   isVisible, phase, hasCleanup, current, readyState, outbox,
                   errorLog, crashed, nframes, lastBranch>>

\* One run in one view: the props stay as they were at the first render.
Next ==
    \/ Mount
    \/ \E s \in DOMAIN readyState : OnOpen(s)
    \/ \E p \in Payloads : OnMessage(p)
    \/ \E s \in DOMAIN readyState : OnClose(s)
    \/ \E s \in DOMAIN readyState : OnError(s)
    \/ Tick

Spec == Init /\ [][Next]_vars

\* The connection through changes of the props and the removal of the
\* component, with few frames.
LifecycleNext ==
    \/ Mount
    \/ \E id \in RunIds \cup {Null}, vis \in BOOLEAN : SetProps(id, vis)
    \/ Unmount
    \/ \E s \in DOMAIN readyState : OnOpen(s)
    \/ \E p \in LifecyclePayloads : OnMessage(p)
    \/ \E s \in DOMAIN readyState : OnClose(s)
    \/ \E s \in DOMAIN readyState : OnError(s)

LifecycleSpec == Init /\ [][LifecycleNext]_vars

\* =================================================================== claims
CatalogIds == {Prop(InitialSteps[i], "id") : i \in DOMAIN InitialSteps}

\* The status the store shows for the step with this id, undefined when the
\* step list holds no such step.
StatusOf(st, id) ==
    LET ws == Prop(st, "workflow_steps")
    IN  IF IsArray(ws) /\ \E i \in DOMAIN ws.v : Prop(ws.v[i], "id") = id
        THEN Prop(ws.v[CHOOSE i \in DOMAIN ws.v : Prop(ws.v[i], "id") = id],
                  "status")
        ELSE Undefined

PatchKeys(p) == SpreadKeys(FrameData(p))
MessageLog(st) == Prop(st, "messages")
ActivityLog(st) == Prop(st, "agent_activities")

\* The fields the progress_update updater writes only in its merge (lines
\* 61-64) have the values that merging p's patch gives them.  OnMessage(p)
\* implies it for a progress_update; it is stated only to decide quickly that
\* a step is not the handling of p.
MergeAgrees(p) ==
    LET m == Obj(Merged(workflowState, FrameData(p)))
    IN  \A k \in {"status", "current_step", "completed_steps",
                  "progress_percentage", "final_result"} :
            Prop(workflowState', k) = Prop(m, k)

\* This step is onmessage handling payload p, and its updater (if any)
\* returned.
Handled(p) ==
    /\ nframes' = nframes + 1
    /\ ~crashed'
    /\ lastBranch' = Branch(p)
    /\ (Branch(p) = "progress_update" => MergeAgrees(p))
    /\ OnMessage(p)

\* The derivation of section 4.3 of the specification.
DerivedStatus(id, currentStep, completed) ==
    IF id = currentStep THEN Str("running")
    ELSE IF Includes(completed, id) THEN Str("completed")
    ELSE Str("pending")

\* C1: after a progress_update that carries both completed_steps C and
\* current_step s, step s is running, every catalog step in C other than s is
\* completed, and the steps the frame does not name keep the status they had
\* (pending if never touched).
C1_BothFieldsSetStatuses ==
    [][\A p \in Payloads :
        ( /\ Branch(p) = "progress_update"
          /\ {"completed_steps", "current_step"} \subseteq PatchKeys(p)
          /\ Handled(p) )
        => \A id \in CatalogIds :
              StatusOf(workflowState', id) =
                IF id = Prop(FrameData(p), "current_step") THEN Str("running")
                ELSE IF Includes(Prop(FrameData(p), "completed_steps"), id)
                     THEN Str("completed")
                     ELSE StatusOf(workflowState, id)]_vars

\* C2: after every progress_update the status of each catalog step is the
\* derivation of section 4.3 applied to the stored current_step and
\* completed_steps, whatever frames came before.
C2_StatusIsDerived ==
    [][\A p \in Payloads :
        (Branch(p) = "progress_update" /\ Handled(p))
        => \A id \in CatalogIds :
              StatusOf(workflowState', id) =
                DerivedStatus(id, Prop(workflowState', "current_step"),
                              Prop(workflowState', "completed_steps"))]_vars

RunFields ==
    {"status", "current_step", "completed_steps", "progress_percentage",
     "current_agent", "final_result"}

\* null and undefined both mean that a field has no value.
SameValue(a, b) == a = b \/ (Nullish(a) /\ Nullish(b))

\* C3: a progress_update or session_update leaves every run field its patch
\* does not contain with the value it had; absence never clears a field.
C3_AbsentFieldKept ==
    [][\A p \in Payloads :
        (Branch(p) \in {"progress_update", "session_update"} /\ Handled(p))
        => \A k \in RunFields \ PatchKeys(p) :
              SameValue(Prop(workflowState', k), Prop(workflowState, k))]_vars

\* a is a prefix of b, both arrays
IsPrefix(a, b) ==
    /\ IsArray(a) /\ IsArray(b)
    /\ Len(a.v) <= Len(b.v)
    /\ SubSeq(b.v, 1, Len(a.v)) = a.v

\* C4: whatever the frame, each log before it is a prefix of the same log
\* after it.
C4_LogsAppendOnly ==
    [][\A p \in Payloads :
        OnMessage(p)
        => /\ IsPrefix(MessageLog(workflowState), MessageLog(workflowState'))
           /\ IsPrefix(ActivityLog(workflowState), ActivityLog(workflowState'))
      ]_vars

\* The patch carries a current_agent or an agent_activity (a value, not null
\* or the empty string).
CarriesAgentOrActivity(p) ==
    \E k \in {"current_agent", "agent_activity"} :
        /\ k \in PatchKeys(p)
        /\ FrameData(p).v[k] \notin {Null, Undefined, Str("")}

\* C5: every progress_update that carries current_agent or agent_activity
\* makes the activity log one record longer, and every other progress_update
\* leaves its length as it was, so that the length counts the qualifying
\* frames.
C5_ActivityCountsFrames ==
    [][\A p \in Payloads :
        (Branch(p) = "progress_update" /\ Handled(p))
        => Len(ActivityLog(workflowState').v) =
             Len(ActivityLog(workflowState).v)
               + (IF CarriesAgentOrActivity(p) THEN 1 ELSE 0)]_vars

\* C6: a progress_update that carries completed_steps replaces the stored
\* completed_steps by the patch's value as a whole, and one that does not
\* carry it leaves the stored value as it was.
C6_CompletedStepsReplaced ==
    [][\A p \in Payloads :
        (Branch(p) = "progress_update" /\ Handled(p))
        => Prop(workflowState', "completed_steps") =
             IF "completed_steps" \in PatchKeys(p)
             THEN FrameData(p).v["completed_steps"]
             ELSE Prop(workflowState, "completed_steps")]_vars

\* C6 witness: triage was completed while it was in completed_steps, and a
\* later patch has replaced completed_steps by the empty list.
C6_Witness ==
    /\ lastBranch = "progress_update"
    /\ ~crashed
    /\ StatusOf(workflowState, Triage) = Str("completed")
    /\ Prop(workflowState, "completed_steps") = Arr(<< >>)

\* C7: after a progress_update naming a current_step that is in the stored
\* completed_steps once the frame is merged, every step with that id is shown
\* running, not completed.
C7_RunningWins ==
    [][\A p \in Payloads :
        ( /\ Branch(p) = "progress_update"
          /\ Truthy(Prop(FrameData(p), "current_step"))
          /\ Handled(p)
          /\ Includes(Prop(workflowState', "completed_steps"),
                      Prop(FrameData(p), "current_step")) )
        => LET ws == Prop(workflowState', "workflow_steps").v
           IN  \A i \in DOMAIN ws :
                  Prop(ws[i], "id") = Prop(FrameData(p), "current_step")
                  => Prop(ws[i], "status") = Str("running")]_vars

\* C7 witness: triage is the current step, is in completed_steps, and is shown
\* running.
C7_Witness ==
    /\ lastBranch = "progress_update"
    /\ ~crashed
    /\ Prop(workflowState, "current_step") = Triage
    /\ Includes(Prop(workflowState, "completed_steps"), Triage)
    /\ StatusOf(workflowState, Triage) = Str("running")

\* C8: a session_update leaves the message log, the activity log and every
\* step's status as they were, whatever its patch contains.
C8_SessionUpdateNoSideEffects ==
    [][\A p \in Payloads :
        (Branch(p) = "session_update" /\ Handled(p))
        => /\ MessageLog(workflowState') = MessageLog(workflowState)
           /\ ActivityLog(workflowState') = ActivityLog(workflowState)
           /\ \A id \in CatalogIds :
                 StatusOf(workflowState', id) = StatusOf(workflowState, id)
      ]_vars

\* C9: a frame that parses and whose type is neither progress_update nor
\* session_update, or is missing, changes neither the store nor the
\* connectivity indicators, and nothing is thrown or logged.
C9_UnknownKindIgnored ==
    [][\A p \in Payloads :
        ( /\ p.json
          /\ ~Nullish(p.value)
          /\ FrameType(p) \notin {Str("progress_update"), Str("session_update")}
          /\ OnMessage(p) )
        => UNCHANGED <<workflowState, isConnected, connectionError,
                       readyState, outbox, errorLog, crashed>>]_vars

\* C9 witness: every frame so far was ignored, on an open connection.
C9_Witness ==
    /\ lastBranch = "ignored"
    /\ nframes = 1
    /\ isConnected
    /\ workflowState = InitialState

\* C10: a payload that is not JSON, is JSON null, is a JSON scalar or is an
\* object without a type is dropped: the store is unchanged, the exception
\* (if one was thrown) is caught and logged by the handler, and the handler
\* stays ready for the next frame.  (An envelope with a type and no usable
\* data is C11's subject.)
C10_MalformedDropped ==
    [][\A p \in Payloads :
        ( /\ (~p.json \/ Prop(p.value, "type") = Undefined)
          /\ OnMessage(p) )
        => /\ UNCHANGED <<workflowState, isConnected, connectionError,
                          readyState, outbox, crashed>>
           /\ errorLog' =
                errorLog + (IF ~p.json \/ p.value = Null THEN 1 ELSE 0)
           /\ \E s \in DOMAIN readyState' : readyState'[s] = "OPEN"
           /\ ~crashed']_vars

\* C10 witness: of two frames the first was dropped by the catch and the
\* second, a progress_update, was merged and put its message in the log.
C10_Witness ==
    /\ nframes = 2
    /\ errorLog = 1
    /\ lastBranch = "progress_update"
    /\ ~crashed
    /\ Len(MessageLog(workflowState).v) = 1

\* C11: no frame that parses as JSON is fatal.  Whatever its data member is
\* (missing, null, not an object), handling the frame throws nothing outside
\* the handler and the component stays mounted; the store takes the merge or
\* stays as it was.
C11_NoFrameFatal ==
    [][\A p \in Payloads :
        (p.json /\ OnMessage(p))
        => /\ ~crashed'
           /\ Mounted'
           /\ (Branch(p) \notin {"progress_update", "session_update"}
                 => workflowState' = workflowState)]_vars

\* A socket that is connecting or open exists.
SomeLive == \E s \in DOMAIN readyState : readyState[s] \in Live

\* C12: while the run id is absent or the view is not visible, no connection
\* is created and none is connecting or open: whenever some connection is
\* connecting or open, the run id is present, the view is visible and the
\* component is mounted.
C12_LiveOnlyWhenShown ==
    SomeLive => (Truthy(sessionId) /\ isVisible /\ Mounted)

\* C12 witness: the view was hidden, or lost its run id, while its connection
\* was connecting or open, and the effect has told that connection to close.
C12_Witness ==
    /\ Mounted
    /\ ~(Truthy(sessionId) /\ isVisible)
    /\ current # 0
    /\ readyState[current] \in {"ABORTED", "CLOSING"}

\* C13: exactly one get_status is sent on every connection that opens, by its
\* open handler and so before any of its frames is merged, and none on a
\* connection that did not open.  A connection starts with nothing sent; the
\* step in which it opens makes get_status the one frame sent on it; no other
\* step sends on it; a frame is handled only on a connection that has it sent.
C13_GetStatusOncePerOpen ==
    [][/\ \A s \in DOMAIN readyState' \ DOMAIN readyState : outbox'[s] = << >>
       /\ \A s \in DOMAIN readyState :
            /\ (readyState[s] = "CONNECTING" /\ readyState'[s] = "OPEN")
                 => outbox'[s] = <<GetStatus>>
            /\ outbox'[s] # outbox[s]
                 => (readyState[s] = "CONNECTING" /\ readyState'[s] = "OPEN")
            /\ (\E p \in LifecyclePayloads : OnMessageAt(s, p))
                 => outbox[s] = <<GetStatus>>]_vars

\* C13 witness: the first connection was told to close before it opened and
\* has nothing sent; the second opened, has its get_status sent, and a frame
\* was handled.
C13_Witness ==
    /\ Len(readyState) = 2
    /\ readyState[1] \in {"ABORTED", "FAILED", "CLOSED"}
    /\ outbox = << << >>, <<GetStatus>> >>
    /\ readyState[2] = "OPEN"
    /\ nframes = 1

\* lines 219-236: the text of the connection status line
ConnectionStatusText ==
    IF isConnected THEN Str("Connected to workflow system")
    ELSE OrElse(connectionError, Str("Connecting..."))

\* C14: whenever a connection is closed, by either side, or has a transport
\* error, the mounted component shows itself disconnected and holds a
\* non-empty reason for it, which is the text of its status line; a clean
\* close with no error before it included.
C14_CloseSurfacesReason ==
    [][\A s \in DOMAIN readyState :
        (Mounted /\ (OnClose(s) \/ OnError(s)))
        => /\ ~isConnected'
           /\ Truthy(connectionError')
           /\ ConnectionStatusText' = connectionError']_vars

\* C15: the component never connects again on its own.  A step that creates
\* a connection is the first run of the effect or a change of the props, to
\* a run id that is present and a view that is visible, and it creates one;
\* no close or error of a connection creates another.
C15_NoReconnectOnItsOwn ==
    [][/\ Len(readyState') > Len(readyState)
          => /\ Len(readyState') = Len(readyState) + 1
             /\ phase = "rendered"
                  \/ <<sessionId', isVisible'>> # <<sessionId, isVisible>>
             /\ Truthy(sessionId') /\ isVisible'
       /\ \A s \in DOMAIN readyState :
            (OnClose(s) \/ OnError(s)) => UNCHANGED <<current, outbox>>]_vars

\* C15 witness: the one connection the component made has failed or closed,
\* the run id is present and the view visible, and no connection followed.
C15_Witness ==
    /\ Mounted
    /\ Truthy(sessionId) /\ isVisible
    /\ Len(readyState) = 1
    /\ readyState[1] \in {"FAILED", "CLOSED"}
    /\ ~isConnected

\* C16: a transport error, a close, or a constructor that throws never
\* modifies the store and throws nothing.  An error on the mounted component
\* leaves a non-empty reason, and as long as no frame has arrived the store is
\* the initial one.
C16_ErrorAndCloseKeepStore ==
    [][/\ \A s \in DOMAIN readyState :
            /\ (OnClose(s) \/ OnError(s))
                 => UNCHANGED <<workflowState, crashed, phase, errorLog>>
            /\ (Mounted /\ OnError(s)) => Truthy(connectionError')
       /\ connectionError' # connectionError
            => UNCHANGED <<workflowState, crashed>>
       /\ nframes' = 0 => workflowState' = InitialState]_vars

\* C16 witness: the connection opened and had an error before any frame
\* arrived; the store is the initial one and a reason is held.
C16_Witness ==
    /\ Mounted
    /\ readyState = <<"FAILED">>
    /\ outbox = << <<GetStatus>> >>
    /\ nframes = 0
    /\ workflowState = InitialState
    /\ connectionError = Str("Connection failed")
    /\ ~isConnected

\* C17: at most one connection is connecting or open, and it is the one
\* websocket.current holds: every earlier connection was told to close
\* before the next was created.
C17_AtMostOneLive ==
    \A s \in DOMAIN readyState : readyState[s] \in Live => s = current

\* C17 witness: a second connection is connecting or open while the first,
\* told to close, has not had its close event yet.
C17_Witness ==
    /\ Len(readyState) = 2
    /\ readyState[1] \in {"ABORTED", "CLOSING"}
    /\ readyState[2] \in Live
    /\ current = 2

\* This step hides the view, changes the run id or removes the component.
Teardown ==
    \/ <<sessionId', isVisible'>> # <<sessionId, isVisible>>
    \/ (Mounted /\ ~Mounted')

\* C18: hiding or removing the view, or changing the run id, calls close() on
\* the connection in use, and no frame of a connection that was torn down is
\* merged afterwards: a frame is handled only on the connection in use of the
\* mounted and visible component, and while no connection is open (from a
\* teardown to the next open) the store does not change.
C18_NoMergeAfterTeardown ==
    [][/\ (Teardown /\ current # 0) => readyState'[current] \notin Live
       /\ \A s \in DOMAIN readyState :
            (\E p \in LifecyclePayloads : OnMessageAt(s, p))
            => (s = current /\ Mounted /\ Truthy(sessionId) /\ isVisible)
       /\ (\A s \in DOMAIN readyState : readyState[s] # "OPEN")
            => workflowState' = workflowState]_vars

\* C18 witness: a frame was merged on the first connection, the run id then
\* changed, and the first connection, told to close while open, still awaits
\* its close event while the second is open and has merged nothing.
C18_Witness ==
    /\ readyState = <<"CLOSING", "OPEN">>
    /\ sessionId = Str("run-2")
    /\ nframes = 1
    /\ lastBranch = "progress_update"
    /\ workflowState # InitialState

\* C19: the store is rebuilt for every run: when a connection is opened after
\* a teardown, whatever frames the earlier run delivered, the store is the
\* initial one and all six steps are pending.
C19_StoreFreshPerRun ==
    [][Len(readyState') > Len(readyState)
        => /\ workflowState' = InitialState
           /\ \A id \in CatalogIds :
                StatusOf(workflowState', id) = Str("pending")]_vars

\* The cleanup, run once more on the sockets it has left, changes nothing;
\* it changes nothing when no connection was ever created, nor when the
\* connection in use is already closing or closed.
CleanupIdempotent ==
    LET once == CleanupEffect(readyState, current)
    IN  /\ CleanupEffect(once, current) = once
        /\ current = 0 => once = readyState
        /\ (current # 0 /\ readyState[current] \notin Live) => once = readyState

\* C20: closing is safe and idempotent.  The cleanup applied a second time
\* leaves the connections as the first left them, and a teardown that finds
\* no connection, or one that is already closing or closed, and opens none
\* leaves connections, store and indicators as they were and throws nothing.
C20_CloseIdempotent ==
    /\ []CleanupIdempotent
    /\ [][( /\ Teardown
            /\ ~crashed'
            /\ current = 0 \/ readyState[current] \notin Live
            /\ ~(Mounted' /\ Truthy(sessionId') /\ isVisible') )
          => UNCHANGED <<readyState, current, outbox, workflowState,
                         isConnected, connectionError, errorLog>>]_vars

\* C20 witness: the view was hidden, which closed the connection, and the
\* component was then removed.
C20_Witness ==
    /\ phase = "unmounted"
    /\ ~crashed
    /\ ~isVisible
    /\ current # 0
    /\ readyState[current] = "CLOSED"
    /\ outbox[current] = <<GetStatus>>

\* The statuses a step of the catalog takes.
StepStatuses == {Str("pending"), Str("running"), Str("completed")}

\* C21: the step catalog is static.  After any frames, with any patch keys,
\* workflow_steps is the six steps of the catalog in their order, each with
\* its name and agent and a status that is pending, running or completed.
C21_CatalogStatic ==
    LET ws == Prop(workflowState, "workflow_steps")
    IN  /\ IsArray(ws)
        /\ DOMAIN ws.v = DOMAIN InitialSteps
        /\ \A i \in DOMAIN InitialSteps :
              /\ \A k \in {"id", "name", "agent"} :
                    Prop(ws.v[i], k) = Prop(InitialSteps[i], k)
              /\ Prop(ws.v[i], "status") \in StepStatuses

IfPresent(x, fallback) == IF Truthy(x) THEN x ELSE fallback

\* C23: the activity record a qualifying progress_update appends has the
\* patch's current_agent as agent if present, else the fragment's agent; the
\* fragment's action as action if present, else the message's content if
\* present, else the placeholder; the fragment's status as status if present,
\* else running.
C23_ActivityRecordFields ==
    [][\A p \in Payloads :
        ( /\ Branch(p) = "progress_update"
          /\ CarriesAgentOrActivity(p)
          /\ Handled(p) )
        => LET d == FrameData(p)
               fragment == IF "agent_activity" \in PatchKeys(p)
                           THEN d.v["agent_activity"] ELSE Obj(NoKeys)
               message == IF "message" \in PatchKeys(p)
                          THEN d.v["message"] ELSE Obj(NoKeys)
               log == ActivityLog(workflowState').v
               record == log[Len(log)]
           IN  /\ Len(log) = Len(ActivityLog(workflowState).v) + 1
               /\ Prop(record, "agent") =
                    IfPresent(Prop(d, "current_agent"), Prop(fragment, "agent"))
               /\ Prop(record, "action") =
                    IfPresent(Prop(fragment, "action"),
                      IfPresent(Prop(message, "content"), Str("Processing...")))
               /\ Prop(record, "status") =
                    IfPresent(Prop(fragment, "status"), Str("running"))]_vars

\* C23 witness: a frame with the message "Case classified as CRITICAL" and
\* current_agent CaseTriageAgent made the one activity record, with that
\* agent, that content as action and status running.
C23_Witness ==
    /\ nframes = 1
    /\ lastBranch = "progress_update"
    /\ ~crashed
    /\ Len(ActivityLog(workflowState).v) = 1
    /\ Prop(ActivityLog(workflowState).v[1], "agent") = Str("CaseTriageAgent")
    /\ Prop(ActivityLog(workflowState).v[1], "action")
         = Str("Case classified as CRITICAL")
    /\ Prop(ActivityLog(workflowState).v[1], "status") = Str("running")

\* C24: a progress_update whose current_step is an id outside the catalog is
\* handled without an error, and after it no step of the catalog is running.
C24_UnknownStepRunsNothing ==
    [][\A p \in Payloads :
        ( /\ Branch(p) = "progress_update"
          /\ Truthy(Prop(FrameData(p), "current_step"))
          /\ Prop(FrameData(p), "current_step") \notin CatalogIds
          /\ OnMessage(p) )
        => /\ ~crashed'
           /\ \A id \in CatalogIds :
                StatusOf(workflowState', id) # Str("running")]_vars

\* C25: the entry appended for a frame's message keeps the timestamp the
\* message came with, and has the local receive time only when the message
\* came without one.
C25_PayloadTimestampKept ==
    [][\A p \in Payloads :
        ( /\ Branch(p) = "progress_update"
          /\ Truthy(Prop(FrameData(p), "message"))
          /\ Handled(p) )
        => LET message == Prop(FrameData(p), "message")
               log == MessageLog(workflowState').v
           IN  Prop(log[Len(log)], "timestamp") =
                 IF "timestamp" \in SpreadKeys(message)
                 THEN Prop(message, "timestamp")
                 ELSE LocaleTimeString(clock)]_vars

\* C26: along the activity log the ids increase strictly, so no two records
\* of a run have the same id, also when two qualifying frames are merged
\* within one tick of the clock.
C26_ActivityIdsIncrease ==
    LET log == ActivityLog(workflowState).v
    IN  \A i, j \in DOMAIN log :
            i < j => Prop(log[i], "id").v < Prop(log[j], "id").v

\* The steps of the catalog the store shows running.
Running(st) == {id \in CatalogIds : StatusOf(st, id) = Str("running")}

\* C27: at most one step of the catalog is running: when current_step moves
\* from a step to another, the first is no longer running, whether or not it
\* is in completed_steps.
C27_AtMostOneRunning == Cardinality(Running(workflowState)) <= 1

\* C28: the connected indicator follows the connection in use only.  It is
\* true only if the connection websocket.current holds is open, and a close
\* or error event of a connection that is no longer the one in use changes
\* neither the indicator nor the reason.
C28_IndicatorTracksCurrent ==
    [][/\ isConnected' => (current' # 0 /\ readyState'[current'] = "OPEN")
       /\ \A s \in DOMAIN readyState \ {current} :
            (OnClose(s) \/ OnError(s))
            => UNCHANGED <<isConnected, connectionError>>]_vars

\* C29: a progress_update whose patch has no current_step (absent, null or
\* empty) leaves the status of every step as it was, also when the patch
\* changes completed_steps.
C29_NoCurrentStepKeepsStatuses ==
    [][\A p \in Payloads :
        ( /\ Branch(p) = "progress_update"
          /\ ~Truthy(Prop(FrameData(p), "current_step"))
          /\ Handled(p) )
        => \A id \in CatalogIds :
              StatusOf(workflowState', id) = StatusOf(workflowState, id)]_vars

\* C30: a step of the catalog that is completed is never pending again within
\* the run: after any later progress_update or session_update it is completed
\* still, or running because the frame names it as current_step.
C30_CompletedNeverPending ==
    [][\A p \in Payloads :
        (Branch(p) \in {"progress_update", "session_update"} /\ Handled(p))
        => \A id \in CatalogIds :
              StatusOf(workflowState, id) = Str("completed")
              => \/ StatusOf(workflowState', id) = Str("completed")
                 \/ /\ StatusOf(workflowState', id) = Str("running")
                    /\ Branch(p) = "progress_update"
                    /\ Prop(FrameData(p), "current_step") = id]_vars

====
